---- MODULE Spec2Model ----
(***************************************************************************)
(* The geometric indexing engines of YJ_Layout_Auto (src/core/engines.py)  *)
(* as a state machine: one engine object (LensEngine, ShotEngine or        *)
(* PadEngine), the GDS design it reads, and its calls.                     *)
(*                                                                         *)
(* Coordinates are exact fixed-point numbers: one model unit is 0.0001     *)
(* layout units (Unit model units make 1.0), so that round(v, 3) is the    *)
(* rounding to a multiple of Quantum = 10 model units.  Python floats are  *)
(* taken as exact decimals: binary representation error is not modelled,   *)
(* and the inputs avoid values that lie exactly half way between two       *)
(* multiples of Quantum.                                                   *)
(***************************************************************************)
EXTENDS Integers, Sequences, FiniteSets, TLC

VARIABLES
  engine,     \* the class of the engine object: "lens", "shot", "pad" or "cellinfo"
  gds,        \* the design stored in the GDS file the user opens: name -> cell
  lib,        \* self.lib is set (a design is loaded)
  cells_map,  \* self.cells_map: name -> cell, the in-memory design
  call,       \* the last call made on the engine, with its arguments
  instances,  \* the instance records of the last process call, in loop order
  ret,        \* how the last call ended, and what it returned
  report,     \* what the last report call wrote: the image, the sheet and its rows
  written,    \* the designs the last call wrote to out_path, in the order written
  btn_run,    \* PadTab.btn_run is enabled
  progress,   \* PadTab.progress is shown
  txt_log,    \* the lines of PadTab.txt_log
  workers,    \* the PadWorker threads PadTab.run has started, in order
  events      \* the signals queued for the GUI thread, oldest first

\* The widgets and threads of the Pad tab.
tab == <<btn_run, progress, txt_log, workers, events>>

vars == <<engine, gds, lib, cells_map, call, instances, ret, report, written,
          btn_run, progress, txt_log, workers, events>>

-----------------------------------------------------------------------------
(* Bounds of the exploration                                               *)

\* References of the parent cell in an enumerated design: 0..MaxRefs.
MaxRefs == 3
\* A process call is explored while the parent holds fewer than MaxPolys polygons.
MaxPolys == 3
\* Primitives of the cell in an enumerated Pad design: 0..MaxPrims.
MaxPrims == 3

\* round(v, 3) in model units: prec = 3 decimals of a layout unit.
Quantum == 10
Unit == 1000 * Quantum

-----------------------------------------------------------------------------
(* Arithmetic helpers                                                      *)

Abs(a) == IF a < 0 THEN -a ELSE a
Min2(a, b) == IF a <= b THEN a ELSE b
Max2(a, b) == IF a >= b THEN a ELSE b
MinOf(S) == CHOOSE m \in S : \A o \in S : m <= o
Last(s) == s[Len(s)]
Range(s) == {s[i] : i \in 1..Len(s)}

\* Python round(n / d) for d > 0: the nearest integer, a tie going to the even one.
RoundDiv(n, d) ==
  LET q == n \div d
      r == n % d
  IN  IF 2 * r < d THEN q
      ELSE IF 2 * r > d THEN q + 1
      ELSE IF q % 2 = 0 THEN q ELSE q + 1

\* (mutant of Round3: the digits after the third decimal are cut off)
Round3_Truncate(v) == (v \div Quantum) * Quantum

\* Python round(v, 3) of a value in model units, again in model units.
Round3(v) == RoundDiv(v, Quantum) * Quantum

\* Python str(n) / format(n, "d").
RECURSIVE DecNat(_)
DecNat(n) ==
  LET digit == <<"0", "1", "2", "3", "4", "5", "6", "7", "8", "9">>
  IN  IF n < 10 THEN digit[n + 1] ELSE DecNat(n \div 10) \o digit[(n % 10) + 1]

Dec(n) == IF n < 0 THEN "-" \o DecNat(-n) ELSE DecNat(n)

\* Python format(n, "0{width}d"): sign first, then zeros up to the width.
RECURSIVE Zeros(_)
Zeros(k) == IF k <= 0 THEN "" ELSE "0" \o Zeros(k - 1)

ZeroPad(n, width) ==
  LET sign == IF n < 0 THEN "-" ELSE ""
      body == DecNat(Abs(n))
  IN  sign \o Zeros(width - Len(sign) - Len(body)) \o body

\* Python's order on the 2-tuples used as sort keys.
KeyLess(k1, k2) == k1[1] < k2[1] \/ (k1[1] = k2[1] /\ k1[2] < k2[2])

\* list.sort(key=...) and sorted(): a stable sort of s; keys[i] is the key of s[i].
SortBy(s, keys) ==
  LET Ins(t, e) ==
        LET p == Cardinality({i \in 1..Len(t) : ~KeyLess(keys[e], keys[t[i]])})
        IN  SubSeq(t, 1, p) \o <<e>> \o SubSeq(t, p + 1, Len(t))
      F[k \in 0..Len(s)] == IF k = 0 THEN <<>> ELSE Ins(F[k - 1], k)
  IN  [i \in 1..Len(s) |-> s[F[Len(s)][i]]]

\* (mutant of sorted: the list is used in the order given)
sorted_Unsorted(s) == s
sorted(s) == SortBy(s, [i \in 1..Len(s) |-> <<s[i], 0>>])

-----------------------------------------------------------------------------
(* The design: cells, references, polygons                                 *)

Names == {"A", "B", "C"}
NoBox == <<>>

\* A polygon: its (layer, datatype) tag and its bounding box <<x0, y0, x1, y1>>,
\* NoBox when bounding_box() is None.
\* text and at say which character of which label a label polygon draws ("" and 0
\* for a polygon of the design itself).
Poly(layer, datatype, box) ==
  [layer |-> layer, datatype |-> datatype, box |-> box, text |-> "", at |-> 0]

\* Reference.cell is a Cell handle when the design holds the cell, else the bare name.
Handle(name) == [kind |-> "Cell", name |-> name]
BareName(name) == [kind |-> "str", str |-> name]

Ref(target, origin, rotation, magnification, x_reflection) ==
  [cell |-> target, origin |-> origin, rotation |-> rotation,
   magnification |-> magnification, x_reflection |-> x_reflection]

\* r_name = ref.cell.name if isinstance(ref.cell, gdstk.Cell) else ref.cell
RefName(ref) == IF ref.cell.kind = "Cell" THEN ref.cell.name ELSE ref.cell.str

UnionBox(a, b) ==
  IF a = NoBox THEN b
  ELSE IF b = NoBox THEN a
  ELSE <<Min2(a[1], b[1]), Min2(a[2], b[2]), Max2(a[3], b[3]), Max2(a[4], b[4])>>

\* The union bounding box of a list of polygons, NoBox when none has one.
BoxOfPolys(polys) ==
  LET F[k \in 0..Len(polys)] ==
        IF k = 0 THEN NoBox ELSE UnionBox(F[k - 1], polys[k].box)
  IN  F[Len(polys)]

\* Cell.bounding_box() of a cell without references (the child cells are leaves).
bounding_box(cell) == BoxOfPolys(cell.polygons)

-----------------------------------------------------------------------------
(* Label geometry (gdstk.text and the placement loops)                     *)

\* gdstk.text(text, size, (0,0), layer=, datatype=): the glyph polygons of a string
\* at the origin.  gdstk is an external library; its interface is modelled as one
\* polygon per character, filling the character's 8 x 16 cell of a 9-wide advance,
\* scaled by size / 16.  The sizes drawn are multiples of 32, so that every extent
\* and every bounding-box centre is a whole number of model units.
TextPolys(text, size, layer, datatype) ==
  LET s == size \div 16
  IN  [i \in 1..Len(text) |->
        [layer |-> layer, datatype |-> datatype,
         box |-> <<9 * (i - 1) * s, 0, (9 * (i - 1) + 8) * s, 16 * s>>,
         text |-> text, at |-> i]]

\* Polygon.translate(dx, dy)
translate(p, dx, dy) ==
  IF p.box = NoBox THEN p
  ELSE [p EXCEPT !.box = <<@[1] + dx, @[2] + dy, @[3] + dx, @[4] + dy>>]

\* (mutant of LensPlaced: the shift is taken from the first glyph's box, not the union)
LensPlaced_FirstGlyph(inst, layer, datatype, size, offset) ==
  LET target_x == inst.x + offset[1]
      target_y == inst.y + offset[2]
      polys == TextPolys(inst.label, size, layer, datatype)
      bb == IF polys = <<>> THEN NoBox ELSE polys[1].box
      shift_x == target_x - (bb[1] + bb[3]) \div 2
      shift_y == target_y - (bb[2] + bb[4]) \div 2
  IN  IF bb = NoBox THEN <<>>
      ELSE [i \in 1..Len(polys) |-> translate(polys[i], shift_x, shift_y)]

\* One pass of the Lens placement loop: the polygons added for one instance.
LensPlaced(inst, layer, datatype, size, offset) ==
  LET target_x == inst.x + offset[1]
      target_y == inst.y + offset[2]
      polys == TextPolys(inst.label, size, layer, datatype)
      bb == BoxOfPolys(polys)
      shift_x == target_x - (bb[1] + bb[3]) \div 2
      shift_y == target_y - (bb[2] + bb[4]) \div 2
  IN  IF bb = NoBox THEN <<>>
      ELSE [i \in 1..Len(polys) |-> translate(polys[i], shift_x, shift_y)]

\* Concatenation of a list of lists.
Flatten(ss) ==
  LET F[k \in 0..Len(ss)] == IF k = 0 THEN <<>> ELSE F[k - 1] \o ss[k]
  IN  F[Len(ss)]

\* (mutant of CellAdd: the new polygons take the place of the cell's polygons)
CellAdd_Replace(cell, polys) == [cell EXCEPT !.polygons = polys]

\* (mutant of CellAdd: the new polygons are put in front)
CellAdd_Prepend(cell, polys) == [cell EXCEPT !.polygons = polys \o @]

\* cell.add(p) for every p of polys, in order.
CellAdd(cell, polys) == [cell EXCEPT !.polygons = @ \o polys]

-----------------------------------------------------------------------------
(* LensEngine.process                                                      *)

\* (mutant of local_center: the fallback is the centre of a unit cell, not the origin)
local_center_UnitFallback(cell_b) ==
  LET bbox == bounding_box(cell_b)
  IN  IF bbox /= NoBox
      THEN <<(bbox[1] + bbox[3]) \div 2, (bbox[2] + bbox[4]) \div 2>>
      ELSE <<Unit \div 2, Unit \div 2>>

\* local_center: the centre of the child's bounding box, (0,0) when it has none.
local_center(cell_b) ==
  LET bbox == bounding_box(cell_b)
  IN  IF bbox /= NoBox
      THEN <<(bbox[1] + bbox[3]) \div 2, (bbox[2] + bbox[4]) \div 2>>
      ELSE <<0, 0>>

\* The instance records of the parent's references that resolve to child_name, in
\* reference order; ref is the position of the reference in cell_a.references.
LensInstances(cell_a, child_name, lc) ==
  LET refs == cell_a.references
      F[k \in 0..Len(refs)] ==
        IF k = 0 THEN <<>>
        ELSE IF RefName(refs[k]) = child_name
             THEN Append(F[k - 1], [ref |-> k, x |-> refs[k].origin[1] + lc[1],
                                    y |-> refs[k].origin[2] + lc[2], label |-> ""])
             ELSE F[k - 1]
  IN  F[Len(refs)]

\* (mutant of get_unique: a coordinate at exactly the tolerance starts a new cluster)
get_unique_AtTolerance(coords, tolerance) ==
  LET U[k \in 0..Len(coords)] ==
        IF k = 0 THEN <<>>
        ELSE IF k = 1 THEN <<coords[1]>>
        ELSE IF coords[k] - Last(U[k - 1]) >= tolerance
             THEN Append(U[k - 1], coords[k])
             ELSE U[k - 1]
  IN  U[Len(coords)]

\* (mutant of get_unique: the loop runs over coords[2:], not coords[1:])
get_unique_SkipSecond(coords, tolerance) ==
  LET U[k \in 0..Len(coords)] ==
        IF k = 0 THEN <<>>
        ELSE IF k = 1 THEN <<coords[1]>>
        ELSE IF k > 2 /\ coords[k] - Last(U[k - 1]) > tolerance
             THEN Append(U[k - 1], coords[k])
             ELSE U[k - 1]
  IN  U[Len(coords)]

\* get_unique(coords): the threshold-merge representatives of a sorted list.
get_unique(coords, tolerance) ==
  LET U[k \in 0..Len(coords)] ==
        IF k = 0 THEN <<>>
        ELSE IF k = 1 THEN <<coords[1]>>
        ELSE IF coords[k] - Last(U[k - 1]) > tolerance
             THEN Append(U[k - 1], coords[k])
             ELSE U[k - 1]
  IN  U[Len(coords)]

\* (mutant of ClusterIndex: the last representative within the tolerance is taken)
ClusterIndex_Last(v, unique, tolerance) ==
  LET hits == {i \in 1..Len(unique) : Abs(v - unique[i]) <= tolerance}
  IN  IF hits = {} THEN -1 ELSE CHOOSE m \in hits : \A o \in hits : m >= o

\* (mutant of ClusterIndex: a value at exactly the tolerance is not within it)
ClusterIndex_Strict(v, unique, tolerance) ==
  LET hits == {i \in 1..Len(unique) : Abs(v - unique[i]) < tolerance}
  IN  IF hits = {} THEN -1 ELSE MinOf(hits)

\* next((i+1 for i, u in enumerate(unique) if abs(v - u) <= tolerance), -1)
ClusterIndex(v, unique, tolerance) ==
  LET hits == {i \in 1..Len(unique) : Abs(v - unique[i]) <= tolerance}
  IN  IF hits = {} THEN -1 ELSE MinOf(hits)

\* all_x = sorted([i['x'] for i in instances]), and likewise all_y.
AllX(insts) == sorted([i \in 1..Len(insts) |-> insts[i].x])
AllY(insts) == sorted([i \in 1..Len(insts) |-> insts[i].y])

\* (mutant of RowColLabels: the column index is looked up in the rows)
RowColLabels_RowTwice(insts, tolerance) ==
  LET unique_y == get_unique(AllY(insts), tolerance)
  IN  [i \in 1..Len(insts) |->
        [insts[i] EXCEPT !.label =
           Dec(ClusterIndex(insts[i].y, unique_y, tolerance)) \o "-"
             \o Dec(ClusterIndex(insts[i].y, unique_y, tolerance))]]

\* (mutant of RowColLabels: the column is written before the row)
RowColLabels_ColRow(insts, tolerance) ==
  LET unique_x == get_unique(AllX(insts), tolerance)
      unique_y == get_unique(AllY(insts), tolerance)
  IN  [i \in 1..Len(insts) |->
        [insts[i] EXCEPT !.label =
           Dec(ClusterIndex(insts[i].x, unique_x, tolerance)) \o "-"
             \o Dec(ClusterIndex(insts[i].y, unique_y, tolerance))]]

\* mode == "row_col": every instance gets "{r_idx}-{c_idx}"; the list keeps its order.
RowColLabels(insts, tolerance) ==
  LET unique_x == get_unique(AllX(insts), tolerance)
      unique_y == get_unique(AllY(insts), tolerance)
  IN  [i \in 1..Len(insts) |->
        [insts[i] EXCEPT !.label =
           Dec(ClusterIndex(insts[i].y, unique_y, tolerance)) \o "-"
             \o Dec(ClusterIndex(insts[i].x, unique_x, tolerance))]]

\* (mutant of SeqKey: the bucket is the floor of the quotient, not its rounding)
SeqKey_Floor(inst, tolerance, sort_dir) ==
  IF sort_dir = "y_first"
  THEN <<inst.y \div tolerance, inst.x>>
  ELSE <<inst.x \div tolerance, inst.y>>

\* The sort key of the sequential mode (tolerance /= 0).
SeqKey(inst, tolerance, sort_dir) ==
  IF sort_dir = "y_first"
  THEN <<RoundDiv(inst.y, tolerance), inst.x>>
  ELSE <<RoundDiv(inst.x, tolerance), inst.y>>

\* (mutant of SeqLabels: numbering from enumerate's 0)
SeqLabels_FromZero(insts, tolerance, sort_dir, digit_width) ==
  LET s == SortBy(insts, [i \in 1..Len(insts) |-> SeqKey(insts[i], tolerance, sort_dir)])
  IN  [k \in 1..Len(s) |-> [s[k] EXCEPT !.label = ZeroPad(k - 1, digit_width)]]

\* Any other mode: the list is sorted in place and numbered from 1.
SeqLabels(insts, tolerance, sort_dir, digit_width) ==
  LET s == SortBy(insts, [i \in 1..Len(insts) |-> SeqKey(insts[i], tolerance, sort_dir)])
  IN  [k \in 1..Len(s) |-> [s[k] EXCEPT !.label = ZeroPad(k, digit_width)]]

LensLabels(insts, tolerance, mode, sort_dir, digit_width) ==
  IF mode = "row_col"
  THEN RowColLabels(insts, tolerance)
  ELSE SeqLabels(insts, tolerance, sort_dir, digit_width)

\* The polygons the placement loop adds to the parent, instance after instance.
LensAdded(insts, layer, datatype, size, offset) ==
  Flatten([i \in 1..Len(insts) |-> LensPlaced(insts[i], layer, datatype, size, offset)])

Raised(exc, what) == [status |-> exc, what |-> what, saved |-> FALSE, count |-> 0]
Returned(saved, count) == [status |-> "ok", what |-> "", saved |-> saved, count |-> count]

\* (mutant of Committed: labels are kept back and added only when every pass ended)
Committed_AllOrNothing(insts, text_fails_at) ==
  IF text_fails_at \in 1..Len(insts) THEN <<>> ELSE insts

\* The instances whose pass of the placement loop ended, cell_a.add included, when
\* gdstk.text raises in pass text_fails_at: nothing catches the exception.
Committed(insts, text_fails_at) ==
  IF text_fails_at \in 1..Len(insts) THEN SubSeq(insts, 1, text_fails_at - 1) ELSE insts

\* (mutant of save_lib: the design is written as it was before the placement loop)
save_lib_Stale(design) == IF lib THEN <<cells_map>> ELSE <<>>

\* BaseEngine.save_lib at the end of a process call: the designs it writes.
save_lib(design) == IF lib THEN <<design>> ELSE <<>>

\* The whole of LensEngine.process, save_lib included.  writable: out_path can be
\* opened for writing (write_gds raises OSError otherwise); text_fails_at: the pass of
\* the placement loop in which gdstk.text raises (none when it is no pass of the loop).
LensProcess(parent_name, child_name, layer, datatype, size, offset, tolerance, mode, sort_dir, digit_width, writable, text_fails_at) ==
  /\ engine = "lens"
  /\ call' = [op |-> "LensEngine.process", parent |-> parent_name, child |-> child_name,
              layer |-> layer, datatype |-> datatype, size |-> size, offset |-> offset,
              tolerance |-> tolerance, mode |-> mode, sort_dir |-> sort_dir,
              digit_width |-> digit_width, writable |-> writable,
              text_fails_at |-> text_fails_at]
  /\ IF parent_name \notin DOMAIN cells_map \/ child_name \notin DOMAIN cells_map
     THEN /\ ret' = Raised("ValueError", "cell_not_found")
          /\ instances' = <<>>
          /\ written' = <<>>
          /\ UNCHANGED cells_map
     ELSE LET cell_a == cells_map[parent_name]
              cell_b == cells_map[child_name]
              insts == LensInstances(cell_a, child_name, local_center(cell_b))
          IN  IF insts = <<>>
              THEN /\ ret' = Raised("ValueError", "no_instances")
                   /\ instances' = <<>>
                   /\ written' = <<>>
                   /\ UNCHANGED cells_map
              ELSE IF mode /= "row_col" /\ tolerance = 0
              THEN \* round(i['y'] / tolerance) divides by zero inside the sort
                   /\ ret' = Raised("ZeroDivisionError", "tolerance")
                   /\ instances' = insts
                   /\ written' = <<>>
                   /\ UNCHANGED cells_map
              ELSE \* the labels, then the passes of the placement loop that end, then
                   \* save_lib
                   /\ Len(cell_a.polygons) < MaxPolys
                   /\ instances' = LensLabels(insts, tolerance, mode, sort_dir, digit_width)
                   /\ cells_map' = [cells_map EXCEPT ![parent_name] =
                        CellAdd(@, LensAdded(Committed(instances', text_fails_at),
                                             layer, datatype, size, offset))]
                   /\ IF text_fails_at \in 1..Len(insts)
                      THEN ret' = Raised("Exception", "text") /\ written' = <<>>
                      ELSE IF lib /\ ~writable
                      THEN ret' = Raised("OSError", "write_gds") /\ written' = <<>>
                      ELSE ret' = Returned(lib, 0) /\ written' = save_lib(cells_map')
  /\ UNCHANGED <<engine, gds, lib, report>>
  /\ UNCHANGED tab

-----------------------------------------------------------------------------
(* ShotEngine                                                              *)

\* (mutant of transform_point: the point is rotated before it is reflected and scaled)
transform_point_RotateFirst(point, reference) ==
  LET origin == reference.origin
      rotation == reference.rotation
      magnification == IF reference.magnification /= 0 THEN reference.magnification ELSE 1
      c == <<1, 0, -1, 0>>[(rotation % 4) + 1]
      s == <<0, 1, 0, -1>>[(rotation % 4) + 1]
      rotated == IF rotation /= 0
                 THEN <<point[1] * c - point[2] * s, point[1] * s + point[2] * c>>
                 ELSE point
      py1 == IF reference.x_reflection THEN -rotated[2] ELSE rotated[2]
      px == rotated[1] * magnification
      py == py1 * magnification
  IN  <<px + origin[1], py + origin[2]>>

\* ShotEngine._transform_point: reflect, scale, rotate, translate.  rotation counts
\* quarter turns (the angles whose cosine and sine are exact): c, s = cos, sin.
transform_point(point, reference) ==
  LET origin == reference.origin
      rotation == reference.rotation
      magnification == IF reference.magnification /= 0 THEN reference.magnification ELSE 1
      py1 == IF reference.x_reflection THEN -point[2] ELSE point[2]
      px == point[1] * magnification
      py == py1 * magnification
      c == <<1, 0, -1, 0>>[(rotation % 4) + 1]
      s == <<0, 1, 0, -1>>[(rotation % 4) + 1]
      rotated == IF rotation /= 0
                 THEN <<px * c - py * s, px * s + py * c>>
                 ELSE <<px, py>>
  IN  <<rotated[1] + origin[1], rotated[2] + origin[2]>>

\* The instance records of the references that resolve to cell_b_name.
ShotInstances(cell_a, cell_b_name, text_anchor) ==
  LET refs == cell_a.references
      F[k \in 0..Len(refs)] ==
        IF k = 0 THEN <<>>
        ELSE IF RefName(refs[k]) = cell_b_name
             THEN LET sort == transform_point(<<0, 0>>, refs[k])
                      text == transform_point(text_anchor, refs[k])
                  IN  Append(F[k - 1], [ref |-> k, sort_x |-> sort[1], sort_y |-> sort[2],
                                        text_x |-> text[1], text_y |-> text[2],
                                        label |-> ""])
             ELSE F[k - 1]
  IN  F[Len(refs)]

Sum(s) ==
  LET F[k \in 0..Len(s)] == IF k = 0 THEN 0 ELSE F[k - 1] + s[k]
  IN  F[Len(s)]

\* a*a + b*b as three base-10000 digits, most significant first: the squares of
\* layout coordinates exceed the checker's 32-bit integers.
LimbBase == 100 * 100
SquareSum(a, b) ==
  LET a1 == Abs(a) \div LimbBase
      a0 == Abs(a) % LimbBase
      b1 == Abs(b) \div LimbBase
      b0 == Abs(b) % LimbBase
      lo == a0 * a0 + b0 * b0
      mid == 2 * a1 * a0 + 2 * b1 * b0 + lo \div LimbBase
      hi == a1 * a1 + b1 * b1 + mid \div LimbBase
  IN  <<hi, mid % LimbBase, lo % LimbBase>>

SquareLess(p, q) ==
  \/ p[1] < q[1]
  \/ p[1] = q[1] /\ p[2] < q[2]
  \/ p[1] = q[1] /\ p[2] = q[2] /\ p[3] < q[3]

\* (sort_x - avg_x)**2 + (sort_y - avg_y)**2, times the square of the instance count
\* (avg = sum / len is no whole number; the factor keeps the order of the keys).
CenterKey(inst, insts) ==
  LET n == Len(insts)
      sum_x == Sum([i \in 1..n |-> insts[i].sort_x])
      sum_y == Sum([i \in 1..n |-> insts[i].sort_y])
  IN  SquareSum(n * inst.sort_x - sum_x, n * inst.sort_y - sum_y)

\* (mutant of CenterInst: of several instances of least key the last is taken)
CenterInst_Last(insts) ==
  insts[CHOOSE m \in 1..Len(insts) :
          /\ \A j \in 1..Len(insts) :
               ~SquareLess(CenterKey(insts[j], insts), CenterKey(insts[m], insts))
          /\ \A o \in (m + 1)..Len(insts) :
               SquareLess(CenterKey(insts[m], insts), CenterKey(insts[o], insts))]

\* center_inst = min(instances, key=...): the first instance of least key.
CenterInst(insts) ==
  insts[MinOf({i \in 1..Len(insts) :
                 \A j \in 1..Len(insts) :
                   ~SquareLess(CenterKey(insts[j], insts), CenterKey(insts[i], insts))})]

\* sorted(list(set(...)))
RECURSIVE SortedSet(_)
SortedSet(S) ==
  IF S = {} THEN <<>> ELSE <<MinOf(S)>> \o SortedSet(S \ {MinOf(S)})

\* list.index(v): the 0-based position of the first element equal to v.
Index(u, v) == MinOf({i \in 1..Len(u) : u[i] = v}) - 1

\* u_x and u_y: the distinct coordinates rounded to prec = 3 decimals, ascending.
UniqueX(insts) == SortedSet({Round3(insts[i].sort_x) : i \in 1..Len(insts)})
UniqueY(insts) == SortedSet({Round3(insts[i].sort_y) : i \in 1..Len(insts)})

\* idx_str = f"({ix},{iy})" of every instance, relative to the centre instance.
ShotLabels(insts) ==
  LET u_x == UniqueX(insts)
      u_y == UniqueY(insts)
      center_inst == CenterInst(insts)
      base_ix == Index(u_x, Round3(center_inst.sort_x))
      base_iy == Index(u_y, Round3(center_inst.sort_y))
  IN  [i \in 1..Len(insts) |->
        [insts[i] EXCEPT !.label =
           "(" \o Dec(Index(u_x, Round3(insts[i].sort_x)) - base_ix) \o ","
               \o Dec(Index(u_y, Round3(insts[i].sort_y)) - base_iy) \o ")"]]

\* size = min(l_h * 0.9, (l_w * 0.9) / (len(idx_str) * char_aspect)) * mag, with
\* char_aspect = 0.6: 0.9 / 0.6 = 3 / 2.  The areas drawn make both quotients exact.
ShotSize(idx_str, text_area, reference) ==
  LET l_w == text_area[1]
      l_h == text_area[2]
      mag == IF reference.magnification /= 0 THEN reference.magnification ELSE 1
  IN  Min2((9 * l_h) \div 10, (3 * l_w) \div (2 * Len(idx_str))) * mag

\* One pass of the Shot placement loop: the polygons added for one instance.
ShotPlaced(inst, reference, text_area, layer, datatype) ==
  LET text_polys == TextPolys(inst.label, ShotSize(inst.label, text_area, reference),
                              layer, datatype)
      bbox == BoxOfPolys(text_polys)
      dx == inst.text_x - (bbox[1] + bbox[3]) \div 2
      dy == inst.text_y - (bbox[2] + bbox[4]) \div 2
  IN  IF bbox = NoBox THEN <<>>
      ELSE [i \in 1..Len(text_polys) |-> translate(text_polys[i], dx, dy)]

ShotAdded(insts, cell_a, text_area, layer, datatype) ==
  Flatten([i \in 1..Len(insts) |->
            ShotPlaced(insts[i], cell_a.references[insts[i].ref], text_area,
                       layer, datatype)])

\* The whole of ShotEngine.process, save_lib included; writable and text_fails_at as
\* in LensProcess.
ShotProcess(cell_a_name, cell_b_name, text_anchor, text_area, layer, datatype, writable, text_fails_at) ==
  /\ engine = "shot"
  /\ call' = [op |-> "ShotEngine.process", parent |-> cell_a_name, child |-> cell_b_name,
              text_anchor |-> text_anchor, text_area |-> text_area,
              layer |-> layer, datatype |-> datatype, writable |-> writable,
              text_fails_at |-> text_fails_at]
  /\ IF cell_a_name \notin DOMAIN cells_map
     THEN /\ ret' = Raised("ValueError", "cell_not_found")
          /\ instances' = <<>>
          /\ written' = <<>>
          /\ UNCHANGED cells_map
     ELSE LET cell_a == cells_map[cell_a_name]
              insts == ShotInstances(cell_a, cell_b_name, text_anchor)
          IN  IF insts = <<>>
              THEN /\ ret' = Raised("ValueError", "no_instances")
                   /\ instances' = <<>>
                   /\ written' = <<>>
                   /\ UNCHANGED cells_map
              ELSE \* the labels, then the passes of the placement loop that end, then
                   \* save_lib
                   /\ Len(cell_a.polygons) < MaxPolys
                   /\ instances' = ShotLabels(insts)
                   /\ cells_map' = [cells_map EXCEPT ![cell_a_name] =
                        CellAdd(@, ShotAdded(Committed(instances', text_fails_at),
                                             cell_a, text_area, layer, datatype))]
                   /\ IF text_fails_at \in 1..Len(insts)
                      THEN ret' = Raised("Exception", "text") /\ written' = <<>>
                      ELSE IF lib /\ ~writable
                      THEN ret' = Raised("OSError", "write_gds") /\ written' = <<>>
                      ELSE ret' = Returned(lib, 0) /\ written' = save_lib(cells_map')
  /\ UNCHANGED <<engine, gds, lib, report>>
  /\ UNCHANGED tab

-----------------------------------------------------------------------------
(* PadEngine.run_analysis                                                  *)

\* cell.flatten(): the cell's own polygons, then those of every referenced cell moved
\* to its reference (the designs drawn place leaf cells by translation only; a
\* reference to a cell the file lacks contributes nothing).
FlatPolygons(design, cell) ==
  LET refs == cell.references
      Moved(r) ==
        IF r.cell.kind = "Cell"
        THEN LET polys == design[r.cell.name].polygons
             IN  [i \in 1..Len(polys) |-> translate(polys[i], r.origin[1], r.origin[2])]
        ELSE <<>>
  IN  cell.polygons \o Flatten([k \in 1..Len(refs) |-> Moved(refs[k])])

\* (mutant of RawData: the datatype is not compared)
RawData_AnyDatatype(polys, layer, datatype) ==
  LET F[k \in 0..Len(polys)] ==
        IF k = 0 THEN <<>>
        ELSE LET poly == polys[k]
                 bbox == poly.box
             IN  IF poly.layer = layer /\ bbox /= NoBox
                 THEN Append(F[k - 1],
                        [cx |-> (bbox[1] + bbox[3]) \div 2, cy |-> (bbox[2] + bbox[4]) \div 2,
                         w |-> bbox[3] - bbox[1], h |-> bbox[4] - bbox[2], poly |-> k])
                 ELSE F[k - 1]
  IN  F[Len(polys)]

\* raw_data_with_poly: one record per polygon of the flat cell with the requested
\* (layer, datatype) and a bounding box; poly, the polygon's position in the flat
\* cell, stands for its points.
RawData(polys, layer, datatype) ==
  LET F[k \in 0..Len(polys)] ==
        IF k = 0 THEN <<>>
        ELSE LET poly == polys[k]
                 bbox == poly.box
             IN  IF poly.layer = layer /\ poly.datatype = datatype /\ bbox /= NoBox
                 THEN Append(F[k - 1],
                        [cx |-> (bbox[1] + bbox[3]) \div 2, cy |-> (bbox[2] + bbox[4]) \div 2,
                         w |-> bbox[3] - bbox[1], h |-> bbox[4] - bbox[2], poly |-> k])
                 ELSE F[k - 1]
  IN  F[Len(polys)]

\* (mutant of PadKey: the centre Y is compared as it is, not rounded)
PadKey_RawY(item) == <<-item.cy, item.cx>>

\* key=lambda item: (-round(item['data']['cy'], 3), item['data']['cx'])
PadKey(item) == <<-Round3(item.cy), item.cx>>

PadSorted(raw) == SortBy(raw, [i \in 1..Len(raw) |-> PadKey(raw[i])])

NoReport == [image |-> FALSE, excel |-> FALSE, rows |-> <<>>]

\* The whole of PadEngine.run_analysis, on the engine's side; writable says whether
\* output_path can be written (pd.ExcelWriter raises PermissionError when it cannot).
PadRunAnalysis(cell_name, layer, datatype, writable) ==
  /\ engine = "pad"
  /\ call' = [op |-> "PadEngine.run_analysis", cell_name |-> cell_name,
              layer |-> layer, datatype |-> datatype, writable |-> writable]
  /\ IF cell_name \notin DOMAIN gds
     THEN /\ ret' = Raised("ValueError", "cell_not_found")
          /\ report' = NoReport
     ELSE LET raw == RawData(FlatPolygons(gds, gds[cell_name]), layer, datatype)
              data_list == PadSorted(raw)
          IN  IF raw = <<>>
              THEN /\ ret' = Raised("ValueError", "no_data")
                   /\ report' = NoReport
              ELSE IF writable
              THEN /\ ret' = Returned(FALSE, Len(data_list))
                   /\ report' = [image |-> TRUE, excel |-> TRUE, rows |-> data_list]
              ELSE /\ ret' = Raised("IOError", "permission")
                   /\ report' = [image |-> TRUE, excel |-> FALSE, rows |-> <<>>]
  /\ written' = <<>>
  /\ UNCHANGED <<engine, gds, lib, cells_map, instances>>

-----------------------------------------------------------------------------
(* CellInfoEngine.process                                                  *)

\* ref.bounding_box(): the referenced cell's box moved to the reference's origin
\* (the designs drawn place cells by translation only); None when the cell has no
\* box or the reference holds a bare name.
RefBox(design, ref) ==
  IF ref.cell.kind = "Cell"
  THEN LET bbox == bounding_box(design[ref.cell.name])
       IN  IF bbox = NoBox THEN NoBox
           ELSE <<bbox[1] + ref.origin[1], bbox[2] + ref.origin[2],
                  bbox[3] + ref.origin[1], bbox[4] + ref.origin[2]>>
  ELSE NoBox

\* The record of one instance, from its name and its box.
InstanceRecord(r_name, bbox) ==
  [CellName |-> r_name,
   Center_X |-> (bbox[1] + bbox[3]) \div 2, Center_Y |-> (bbox[2] + bbox[4]) \div 2,
   Width |-> bbox[3] - bbox[1], Height |-> bbox[4] - bbox[2], Index |-> 0]

\* all_instances before the sort: one record per reference of the parent whose name
\* is among target_children and whose box is not None, in reference order.
AllInstances(design, parent, target_children) ==
  LET refs == parent.references
      F[k \in 0..Len(refs)] ==
        IF k = 0 THEN <<>>
        ELSE IF RefName(refs[k]) \in target_children /\ RefBox(design, refs[k]) /= NoBox
             THEN Append(F[k - 1],
                         InstanceRecord(RefName(refs[k]), RefBox(design, refs[k])))
             ELSE F[k - 1]
  IN  F[Len(refs)]

\* (mutant of CellInfoKey: the centre Y is compared as it is, not rounded)
CellInfoKey_RawY(x) == <<-x.Center_Y, x.Center_X>>

\* key=lambda x: (-round(x['Center_Y'], 3), x['Center_X'])
CellInfoKey(x) == <<-Round3(x.Center_Y), x.Center_X>>

CellInfoSorted(all) == SortBy(all, [i \in 1..Len(all) |-> CellInfoKey(all[i])])

\* The seen_cells loop: the first record of every name, in the order of the list.
Dedup(items) ==
  LET F[k \in 0..Len(items)] ==
        IF k = 0 THEN <<>>
        ELSE IF \E j \in 1..(k - 1) : items[j].CellName = items[k].CellName
             THEN F[k - 1]
             ELSE Append(F[k - 1], items[k])
  IN  F[Len(items)]

\* item['Index'] = i + 1
Indexed(data_list) == [i \in 1..Len(data_list) |-> [data_list[i] EXCEPT !.Index = i]]

\* The whole of CellInfoEngine.process; target_children is used for membership only
\* and is held as a set; the parent's own box only feeds the image.  writable says
\* whether output_path can be written.
CellInfoProcess(parent_name, target_children, writable) ==
  /\ engine = "cellinfo"
  /\ call' = [op |-> "CellInfoEngine.process", parent |-> parent_name,
              target_children |-> target_children, writable |-> writable]
  /\ IF parent_name \notin DOMAIN cells_map
     THEN /\ ret' = Raised("ValueError", "parent_not_found")
          /\ instances' = <<>>
          /\ report' = NoReport
     ELSE /\ instances' = CellInfoSorted(AllInstances(cells_map, cells_map[parent_name],
                                                      target_children))
          /\ IF instances' = <<>>
             THEN /\ ret' = Raised("ValueError", "no_instances")
                  /\ report' = NoReport
             ELSE IF writable
             THEN /\ ret' = Returned(FALSE, Len(Dedup(instances')))
                  /\ report' = [image |-> TRUE, excel |-> TRUE,
                                rows |-> Indexed(Dedup(instances'))]
             ELSE /\ ret' = Raised("IOError", "permission")
                  /\ report' = [image |-> TRUE, excel |-> FALSE, rows |-> <<>>]
  /\ written' = <<>>
  /\ UNCHANGED <<engine, gds, lib, cells_map>>
  /\ UNCHANGED tab

-----------------------------------------------------------------------------
(* The Pad tab: PadTab and its PadWorker threads                           *)

\* The runs of the Pad tab explored.
MaxRuns == 2

\* PadWorker.__init__: a thread that has not run yet; emitted is the history of the
\* signals it emitted.
PadWorker(kwargs) == [pc |-> "started", kwargs |-> kwargs, emitted |-> <<>>]

\* signal.emit(msg) from worker w: the worker lives in another thread than its
\* receivers, so the connection is queued and the slot runs later, in the GUI thread.
Emit(w, signal, text, count) ==
  /\ events' = Append(events, [signal |-> signal, worker |-> w, text |-> text,
                               count |-> count])

\* What PadTab.run reads from its widgets: the cell, the layer, the datatype and
\* whether the output path can be written.  Every text is the user's; the cell
\* names are drawn freely, although browse_gds as shipped cannot fill combo_cell
\* (tabs.py line 286 names gdstk, which the module does not import).
PadKwargs ==
  {[cell_name |-> c, layer |-> l, datatype |-> 0, writable |-> wr] :
     c \in {"A", "Z"}, l \in {1, 2}, wr \in BOOLEAN}

\* (mutant of PadTabRun: the button stays enabled while the worker runs)
PadTabRun_StaysEnabled ==
  /\ btn_run
  /\ Len(workers) < MaxRuns
  /\ \E kwargs \in PadKwargs :
       /\ btn_run' = btn_run
       /\ progress' = TRUE
       /\ txt_log' = <<>>
       /\ workers' = Append(workers, PadWorker(kwargs))
  /\ UNCHANGED <<events, engine, gds, lib, cells_map, call, instances, ret, report,
                 written>>

\* PadTab.run, the slot of btn_run.clicked: a disabled button emits no click.
PadTabRun ==
  /\ btn_run
  /\ Len(workers) < MaxRuns
  /\ \E kwargs \in PadKwargs :
       /\ btn_run' = FALSE
       /\ progress' = TRUE
       /\ txt_log' = <<>>
       /\ workers' = Append(workers, PadWorker(kwargs))
  /\ UNCHANGED <<events, engine, gds, lib, cells_map, call, instances, ret, report,
                 written>>

\* PadWorker.run, its first statement: log_signal.emit.
PadWorkerLog ==
  \E w \in 1..Len(workers) :
    /\ workers[w].pc = "started"
    /\ workers' = [workers EXCEPT ![w].pc = "logged",
                                  ![w].emitted = Append(@, "log_signal")]
    /\ Emit(w, "log_signal", "start", 0)
    /\ UNCHANGED <<btn_run, progress, txt_log, engine, gds, lib, cells_map, call,
                   instances, ret, report, written>>

\* The signal PadWorker.run ends with: finish_signal after a return of run_analysis,
\* error_signal in the handler of any Exception.
ResultSignal(r) == IF r.status = "ok" THEN "finish_signal" ELSE "error_signal"

\* PadWorker.run, the rest: run_analysis, then the signal of its outcome.
PadWorkerRun ==
  \E w \in 1..Len(workers) :
    /\ workers[w].pc = "logged"
    /\ PadRunAnalysis(workers[w].kwargs.cell_name, workers[w].kwargs.layer,
                      workers[w].kwargs.datatype, workers[w].kwargs.writable)
    /\ workers' = [workers EXCEPT ![w].pc = "finished",
                                  ![w].emitted = Append(@, ResultSignal(ret'))]
    /\ Emit(w, ResultSignal(ret'), ret'.status, ret'.count)
    /\ UNCHANGED <<btn_run, progress, txt_log>>

\* The GUI thread takes the oldest queued signal and runs its slot.
\* txt_log.append, the slot of log_signal.
txt_log_append ==
  /\ events /= <<>>
  /\ Head(events).signal = "log_signal"
  /\ txt_log' = Append(txt_log, Head(events).text)
  /\ events' = Tail(events)
  /\ UNCHANGED <<btn_run, progress, workers, engine, gds, lib, cells_map, call,
                 instances, ret, report, written>>

\* PadTab.on_finish, the slot of finish_signal (the message box it ends with holds
\* no state).
on_finish ==
  /\ events /= <<>>
  /\ Head(events).signal = "finish_signal"
  /\ progress' = FALSE
  /\ btn_run' = TRUE
  /\ events' = Tail(events)
  /\ UNCHANGED <<txt_log, workers, engine, gds, lib, cells_map, call, instances, ret,
                 report, written>>

\* PadTab.on_error, the slot of error_signal.
on_error ==
  /\ events /= <<>>
  /\ Head(events).signal = "error_signal"
  /\ progress' = FALSE
  /\ btn_run' = TRUE
  /\ txt_log' = Append(txt_log, "Error: " \o Head(events).text)
  /\ events' = Tail(events)
  /\ UNCHANGED <<workers, engine, gds, lib, cells_map, call, instances, ret, report,
                 written>>

-----------------------------------------------------------------------------
(* The designs and arguments explored                                      *)

Cell(references, polygons) == [references |-> references, polygons |-> polygons]

\* gdstk.read_gds resolves a reference to a Cell handle when the file holds a cell of
\* that name, and leaves the bare name otherwise.
Target(present, name) == IF name \in present THEN Handle(name) ELSE BareName(name)

SeqsUpTo(S, n) == UNION {[1..k -> S] : k \in 0..n}

\* The design polygon every parent starts with, and the child's own polygon.
OwnPoly == Poly(1, 0, <<-4, -4, 4, 4>>)
ChildPoly == Poly(1, 0, <<0, 0, 2, 2>>)

\* A design: parent "A" with the given references, leaf "C", and child "B" either
\* with a polygon ("box"), without any polygon ("empty") or not in the file ("absent").
Present(b) == IF b = "absent" THEN {"A", "C"} ELSE {"A", "B", "C"}
Design(refs, b) ==
  [n \in Present(b) |->
    IF n = "A" THEN Cell(refs, <<OwnPoly>>)
    ELSE IF n = "B" THEN Cell(<<>>, IF b = "box" THEN <<ChildPoly>> ELSE <<>>)
    ELSE Cell(<<>>, <<OwnPoly>>)]

PlainRef(present, name, origin) == Ref(Target(present, name), origin, 0, 1, FALSE)

\* The reference origins drawn: the gaps 2, 1 and 3 between the X values put a value
\* within tolerance 2 of two representatives.
LensXs == {-1, 1, 2}
LensYs == {0, 1}
LensRefChoices ==
  {<<"B", <<x, y>>>> : x \in LensXs, y \in LensYs} \cup {<<"C", <<0, 0>>>>}

\* Scenario 1 and 2 of the specification: a child whose bounding-box centre is
\* (5,5) and four instances at (0,0), (100,0), (0,100), (100,100).
ScenarioLens ==
  [n \in {"A", "B"} |->
    IF n = "A"
    THEN Cell(<<PlainRef({"B"}, "B", <<0, 0>>), PlainRef({"B"}, "B", <<100 * Unit, 0>>),
                PlainRef({"B"}, "B", <<0, 100 * Unit>>),
                PlainRef({"B"}, "B", <<100 * Unit, 100 * Unit>>)>>, <<OwnPoly>>)
    ELSE Cell(<<>>, <<Poly(1, 0, <<0, 0, 10 * Unit, 10 * Unit>>)>>)]

\* The same four instances listed in another order of the parent's references.
ScenarioLensShuffled ==
  [ScenarioLens EXCEPT !["A"].references = <<@[4], @[2], @[3], @[1]>>]

\* Every list of up to MaxRefs references with the child present, and the lists of up
\* to two references with the child empty or absent.
LensDesign(c, b) ==
  Design([i \in DOMAIN c |-> PlainRef(Present(b), c[i][1], c[i][2])], b)

LensDesigns ==
  {LensDesign(c, "box") : c \in SeqsUpTo(LensRefChoices, MaxRefs)}
  \cup {LensDesign(c, b) : c \in SeqsUpTo(LensRefChoices, 2), b \in {"empty", "absent"}}
  \cup {ScenarioLens, ScenarioLensShuffled}

LensTolerances == {0, 1, 2, Unit}
LabelLayer == 66
LabelSize == 2 * 16
LabelOffset == <<3, -1>>

\* Shot designs: X values of which 4 and 6 round apart and 6 and 14 round together.
ShotXs == {4, 6, 14}
ShotYs == {-4, 6}
ShotRefChoices ==
  {<<"B", <<x, y>>>> : x \in ShotXs, y \in ShotYs} \cup {<<"C", <<0, 0>>>>}

\* The transform of the k-th reference of a Shot design: none ("plain"), or a
\* different rotation, magnification and reflection at every position ("mixed").
ShotRef(present, name, origin, k, transforms) ==
  IF transforms = "plain" THEN Ref(Target(present, name), origin, 0, 1, FALSE)
  ELSE Ref(Target(present, name), origin, k % 4, (k + 1) % 3, k % 2 = 1)

ShotDesign(c, b, transforms) ==
  Design([i \in DOMAIN c |-> ShotRef(Present(b), c[i][1], c[i][2], i, transforms)], b)

\* Scenario 3 of the specification: a 3 x 3 grid of instances spaced 50 apart.
ScenarioShot ==
  [n \in {"A", "B"} |->
    IF n = "A"
    THEN Cell([k \in 1..9 |->
                 PlainRef({"B"}, "B", <<((k - 1) % 3) * 50 * Unit,
                                        ((k - 1) \div 3) * 50 * Unit>>)],
              <<OwnPoly>>)
    ELSE Cell(<<>>, <<ChildPoly>>)]

ShotDesigns ==
  {ShotDesign(c, "box", t) : c \in SeqsUpTo(ShotRefChoices, MaxRefs),
                             t \in {"plain", "mixed"}}
  \cup {ShotDesign(c, "absent", "plain") : c \in SeqsUpTo(ShotRefChoices, 2)}
  \cup {ScenarioShot}

\* The text anchor of a Shot call in the child's own coordinates, and the label area.
ShotAnchor == <<3, 1>>
ShotAreas == {<<4480, 3200>>, <<44800, 3200>>}

\* Pad designs: cell "A" holds up to MaxPrims primitives.  Centres 5.0, 5.0001 and
\* 10.0 in X, and 50.0001, 50.0002 (one rounded row) and 50.0006 (the next) in Y; a
\* primitive of another datatype; a primitive without bounding box.
PadBox(cx, cy) == <<cx - 1, cy - 1, cx + 1, cy + 1>>
PadPrimChoices ==
  {Poly(1, 0, PadBox(cx, cy)) : cx \in {5 * Unit, 5 * Unit + 1, 10 * Unit},
                                cy \in {50 * Unit + 1, 50 * Unit + 2, 50 * Unit + 6}}
  \cup {Poly(1, 1, PadBox(5 * Unit, 50 * Unit + 1)), Poly(1, 0, NoBox)}

\* "A" alone, or "A" with a reference to the leaf "C" that holds one more primitive.
PadDesign(prims, withRef) ==
  [n \in {"A", "C"} |->
    IF n = "A"
    THEN Cell(IF withRef THEN <<PlainRef({"A", "C"}, "C", <<2 * Unit, 0>>)>> ELSE <<>>,
              prims)
    ELSE Cell(<<>>, <<Poly(1, 0, PadBox(5 * Unit, 50 * Unit + 1))>>)]

PadDesigns ==
  {PadDesign(prims, FALSE) : prims \in SeqsUpTo(PadPrimChoices, MaxPrims)}
  \cup {PadDesign(prims, TRUE) : prims \in SeqsUpTo(PadPrimChoices, 1)}

\* The files opened in the Pad tab: "A" with at most one primitive of its own.
PadTabDesigns ==
  {PadDesign(prims, withRef) : prims \in SeqsUpTo(PadPrimChoices, 1),
                               withRef \in BOOLEAN}

\* Cell-info designs: instances of "B" whose centre Y is 1, 2 (one rounded row) or
\* 6 (the next), at two X values, and instances of "C" in either row.
CellInfoRefChoices ==
  {<<"B", <<x, y>>>> : x \in {-1, 1}, y \in {0, 1, 5}}
  \cup {<<"C", <<0, 0>>>>, <<"C", <<0, 6>>>>}

CellInfoDesigns ==
  {LensDesign(c, "box") : c \in SeqsUpTo(CellInfoRefChoices, MaxRefs)}
  \cup {LensDesign(c, b) : c \in SeqsUpTo(CellInfoRefChoices, 2), b \in {"empty", "absent"}}

CellInfoTargets == {{"B"}, {"C"}, {"B", "C"}, {"C", "Z"}}

Designs(e) ==
  CASE e = "lens" -> LensDesigns
    [] e = "shot" -> ShotDesigns
    [] e = "pad" -> PadDesigns
    [] e = "cellinfo" -> CellInfoDesigns

-----------------------------------------------------------------------------
(* The state machine                                                       *)

NoCells == [n \in {} |-> Cell(<<>>, <<>>)]

Engines == {"lens", "shot", "pad"}

\* A new engine object (BaseEngine.__init__) and the file the user is about to open.
InitOf(e) ==
  /\ engine = e
  /\ gds \in Designs(e)
  /\ lib = FALSE
  /\ cells_map = NoCells
  /\ call = [op |-> "none"]
  /\ instances = <<>>
  /\ ret = Returned(FALSE, 0)
  /\ report = NoReport
  /\ written = <<>>
  /\ btn_run = TRUE
  /\ progress = FALSE
  /\ txt_log = <<>>
  /\ workers = <<>>
  /\ events = <<>>

Init == \E e \in Engines : InitOf(e)

\* BaseEngine.load_lib: a fresh snapshot of the file replaces the in-memory design.
LoadLib ==
  /\ engine \in {"lens", "shot", "cellinfo"}
  /\ lib' = TRUE
  /\ cells_map' = gds
  /\ call' = [op |-> "load_lib"]
  /\ instances' = <<>>
  /\ ret' = Returned(FALSE, Cardinality(DOMAIN gds))
  /\ written' = <<>>
  /\ UNCHANGED <<engine, gds, report>>
  /\ UNCHANGED tab

\* The calls explored: every mode and tolerance on a loaded design, the default
\* arguments with each parent name in every state, and the default arguments on a
\* loaded design with an out_path that cannot be written or a failing gdstk.text.
LensCall ==
  \/ /\ lib
     /\ \E tolerance \in LensTolerances :
       LensProcess("A", "B", LabelLayer, 0, LabelSize, LabelOffset, tolerance,
                   "row_col", "y_first", 4, TRUE, 0)
  \/ /\ lib
     /\ \E tolerance \in LensTolerances, sort_dir \in {"y_first", "x_first"},
          digit_width \in {0, 2} :
       LensProcess("A", "B", LabelLayer, 0, LabelSize, LabelOffset, tolerance,
                   "index", sort_dir, digit_width, TRUE, 0)
  \/ \E parent_name \in {"A", "B", "Z"} :
       LensProcess(parent_name, "B", LabelLayer, 0, LabelSize, LabelOffset, Unit,
                   "index", "y_first", 4, TRUE, 0)
  \/ /\ lib
     /\ \E text_fails_at \in 1..MaxRefs :
       LensProcess("A", "B", LabelLayer, 0, LabelSize, LabelOffset, Unit,
                   "index", "y_first", 4, TRUE, text_fails_at)
  \/ /\ lib
     /\ LensProcess("A", "B", LabelLayer, 0, LabelSize, LabelOffset, Unit,
                    "index", "y_first", 4, FALSE, 0)

ShotCall ==
  \/ /\ lib
     /\ \E text_area \in ShotAreas :
          ShotProcess("A", "B", ShotAnchor, text_area, LabelLayer, 0, TRUE, 0)
  \/ \E cell_a_name \in {"B", "Z"} :
       ShotProcess(cell_a_name, "B", ShotAnchor, <<4480, 3200>>, LabelLayer, 0, TRUE, 0)
  \/ /\ lib
     /\ \E text_fails_at \in 1..MaxRefs :
          ShotProcess("A", "B", ShotAnchor, <<4480, 3200>>, LabelLayer, 0, TRUE,
                      text_fails_at)
  \/ /\ lib
     /\ ShotProcess("A", "B", ShotAnchor, <<4480, 3200>>, LabelLayer, 0, FALSE, 0)

PadCall ==
  \/ /\ \E writable \in BOOLEAN : PadRunAnalysis("A", 1, 0, writable)
     /\ UNCHANGED tab
  \/ /\ \E cell_name \in {"A", "Z"} : PadRunAnalysis(cell_name, 2, 0, TRUE)
     /\ UNCHANGED tab

\* Every selection and writability on parent "A" of a loaded design, and the
\* selection of "B" with each parent name in every state.
CellInfoCall ==
  \/ /\ lib
     /\ \E target_children \in CellInfoTargets, writable \in BOOLEAN :
          CellInfoProcess("A", target_children, writable)
  \/ \E parent_name \in {"A", "Z"} : CellInfoProcess(parent_name, {"B"}, TRUE)

Next ==
  \/ LoadLib
  \/ LensCall
  \/ ShotCall
  \/ PadCall

\* The Lens, Shot and Pad engines.
Spec == Init /\ [][Next]_vars

\* One LensEngine, one ShotEngine, one PadEngine.
NextLens == LoadLib \/ LensCall
SpecLens == InitOf("lens") /\ [][NextLens]_vars

NextShot == LoadLib \/ ShotCall
SpecShot == InitOf("shot") /\ [][NextShot]_vars

SpecPad == InitOf("pad") /\ [][PadCall]_vars

\* One CellInfoEngine.
NextCellInfo == LoadLib \/ CellInfoCall
SpecCellInfo == InitOf("cellinfo") /\ [][NextCellInfo]_vars

\* The Pad tab: one PadTab with its PadEngine, its workers and the GUI thread.
InitPadTab == InitOf("pad") /\ gds \in PadTabDesigns
NextPadTab ==
  \/ PadTabRun
  \/ PadWorkerLog
  \/ PadWorkerRun
  \/ txt_log_append
  \/ on_finish
  \/ on_error
SpecPadTab == InitPadTab /\ [][NextPadTab]_vars

-----------------------------------------------------------------------------
(* Vocabulary of the properties                                            *)

LensCalled == call.op = "LensEngine.process"
LensOk == LensCalled /\ ret.status = "ok"
RowColOk == LensOk /\ call.mode = "row_col"
SequentialOk == LensOk /\ call.mode /= "row_col"

\* The references of cell that resolve to name, as positions in its reference list.
Matching(cell, name) ==
  {k \in 1..Len(cell.references) : RefName(cell.references[k]) = name}

\* The instance record of the last call that was made for reference k.
InstOfRef(k) == instances[CHOOSE i \in 1..Len(instances) : instances[i].ref = k]

Orders(n) == {p \in [1..n -> 1..n] : \A i \in 1..n : \E j \in 1..n : p[j] = i}

\* The threshold-merge representatives of a set of values, stated on the set: the
\* least value is a representative and absorbs every value within the tolerance of
\* it; the rest is clustered the same way.
RECURSIVE Representatives(_, _)
Representatives(S, tolerance) ==
  IF S = {} THEN {}
  ELSE LET m == MinOf(S)
       IN  {m} \cup Representatives({v \in S : v - m > tolerance}, tolerance)

\* The 1-based ascending index of the cluster that absorbed v.
ClusterOf(v, S, tolerance) ==
  Cardinality({r \in Representatives(S, tolerance) : r <= v})

\* The integer nearest to v / t, the even one of two equally near.
Bucket(v, t) ==
  CHOOSE q \in ((v \div t) - 1)..((v \div t) + 1) :
    \/ 2 * Abs(v - q * t) < t
    \/ 2 * Abs(v - q * t) = t /\ q % 2 = 0

\* The number a zero-padded decimal label stands for (-1 when it is none).
IntValue(label) ==
  LET fits == {k \in 0..(Len(instances) + 1) :
                 \E z \in 0..4 : label = Zeros(z) \o ToString(k)}
  IN  IF fits = {} THEN -1 ELSE CHOOSE k \in fits : TRUE

-----------------------------------------------------------------------------
(* C1: row-column labelling does not depend on the order of the parent's   *)
(* references: whatever permutation of the reference list the call had been *)
(* given, every underlying reference would carry the label it carries now.  *)
C1_RowColOrderIndependent ==
  RowColOk =>
    LET cell_a == cells_map[call.parent]
        refs == cell_a.references
        lc == local_center(cells_map[call.child])
    IN  \A p \in Orders(Len(refs)) :
          LET permuted == [cell_a EXCEPT !.references = [i \in 1..Len(refs) |-> refs[p[i]]]]
              relabelled == RowColLabels(LensInstances(permuted, call.child, lc),
                                         call.tolerance)
          IN  /\ Len(relabelled) = Len(instances)
              /\ \A i \in 1..Len(relabelled) :
                   InstOfRef(p[relabelled[i].ref]).label = relabelled[i].label

\* Three instances listed in descending X, with three different labels.
C1_Witness ==
  /\ RowColOk
  /\ Len(instances) = 3
  /\ instances[1].x > instances[2].x /\ instances[2].x > instances[3].x
  /\ Cardinality({instances[i].label : i \in 1..3}) = 3

(* C2: sequential labelling of N matching instances uses the integers 1..N, *)
(* each exactly once, for y_first and x_first.                              *)
C2_SequentialIsPermutation ==
  SequentialOk =>
    LET N == Cardinality(Matching(cells_map[call.parent], call.child))
    IN  /\ Len(instances) = N
        /\ \A k \in 1..N :
             Cardinality({i \in 1..N : IntValue(instances[i].label) = k}) = 1

\* Two matching instances and another reference between them, numbered in x_first
\* order against the order of the reference list.
C2_Witness ==
  /\ SequentialOk
  /\ call.sort_dir = "x_first"
  /\ Len(instances) = 2
  /\ Len(cells_map[call.parent].references) = 3
  /\ instances[1].ref = 3 /\ instances[2].ref = 1

\* The origin of the reference an instance record was made for.
OriginOf(inst) == cells_map[call.parent].references[inst.ref].origin

ScenarioLoaded == gds \in {ScenarioLens, ScenarioLensShuffled}

(* C3: in row-column mode every label is "{row}-{col}", row the 1-based     *)
(* ascending index of the threshold-merge Y cluster that holds the          *)
(* instance's Y and col that of the X cluster that holds its X; scenario 1  *)
(* (child centre (5,5), origins (0,0), (100,0), (0,100), (100,100),         *)
(* tolerance 1) gives 1-1, 1-2, 2-1, 2-2.                                   *)
C3_RowColLabelIsClusterPair ==
  RowColOk =>
    LET xs == {instances[i].x : i \in 1..Len(instances)}
        ys == {instances[i].y : i \in 1..Len(instances)}
        Expected(origin) ==
          IF origin = <<0, 0>> THEN "1-1"
          ELSE IF origin = <<100 * Unit, 0>> THEN "1-2"
          ELSE IF origin = <<0, 100 * Unit>> THEN "2-1"
          ELSE "2-2"
    IN  /\ \A i \in 1..Len(instances) :
             instances[i].label =
               ToString(ClusterOf(instances[i].y, ys, call.tolerance)) \o "-"
                 \o ToString(ClusterOf(instances[i].x, xs, call.tolerance))
        /\ (ScenarioLoaded /\ call.tolerance = Unit) =>
             \A i \in 1..Len(instances) :
               /\ instances[i].x = OriginOf(instances[i])[1] + 5 * Unit
               /\ instances[i].y = OriginOf(instances[i])[2] + 5 * Unit
               /\ instances[i].label = Expected(OriginOf(instances[i]))

\* Scenario 1 has run.
C3_Witness ==
  /\ RowColOk
  /\ gds = ScenarioLens
  /\ call.tolerance = Unit
  /\ Len(instances) = 4

(* C4: in sequential mode the instances are numbered in ascending order of  *)
(* (round(primary / tolerance), secondary), primary Y and secondary X for   *)
(* y_first and the reverse for x_first, and every number is a decimal       *)
(* zero-padded to at least digit_width characters; scenario 2 (x_first,     *)
(* digit_width 2) gives 01, 02, 03, 04 for (0,0), (0,100), (100,0),         *)
(* (100,100).                                                               *)
C4_SequentialOrderAndPadding ==
  SequentialOk =>
    LET t == call.tolerance
        Primary(i) == IF call.sort_dir = "y_first" THEN i.y ELSE i.x
        Secondary(i) == IF call.sort_dir = "y_first" THEN i.x ELSE i.y
        Before(a, b) ==
          \/ Bucket(Primary(a), t) < Bucket(Primary(b), t)
          \/ Bucket(Primary(a), t) = Bucket(Primary(b), t) /\ Secondary(a) < Secondary(b)
        Expected(origin) ==
          IF origin = <<0, 0>> THEN "01"
          ELSE IF origin = <<0, 100 * Unit>> THEN "02"
          ELSE IF origin = <<100 * Unit, 0>> THEN "03"
          ELSE "04"
    IN  /\ \A i, j \in 1..Len(instances) :
             Before(instances[i], instances[j]) =>
               IntValue(instances[i].label) < IntValue(instances[j].label)
        /\ \A i \in 1..Len(instances) :
             LET label == instances[i].label
                 digits == ToString(IntValue(label))
             IN  /\ IntValue(label) >= 1
                 /\ Len(label) >= call.digit_width
                 /\ label = Zeros(Len(label) - Len(digits)) \o digits
                 /\ Len(label) > Len(digits) => Len(label) = call.digit_width
        /\ (ScenarioLoaded /\ call.sort_dir = "x_first" /\ call.digit_width = 2) =>
             \A i \in 1..Len(instances) :
               instances[i].label = Expected(OriginOf(instances[i]))

\* Scenario 2 has run.
C4_Witness ==
  /\ SequentialOk
  /\ gds = ScenarioLens
  /\ call.sort_dir = "x_first" /\ call.digit_width = 2 /\ call.tolerance = Unit
  /\ Len(instances) = 4

\* The child of the last Lens call is in the design and has no bounding box.
ChildBoxEmpty ==
  /\ LensCalled
  /\ call.parent \in DOMAIN cells_map /\ call.child \in DOMAIN cells_map
  /\ bounding_box(cells_map[call.child]) = NoBox

\* The (label, character) pairs of the glyph polygons the placement loop adds.
GlyphsOf(insts) ==
  Flatten([i \in 1..Len(insts) |->
            [k \in 1..Len(insts[i].label) |-> <<insts[i].label, k>>]])

\* The parent's polygon list ends with the glyphs of the labels of the last call.
LabelsPlaced ==
  LET polys == cells_map[call.parent].polygons
      glyphs == GlyphsOf(instances)
      first == Len(polys) - Len(glyphs)
  IN  /\ glyphs /= <<>>
      /\ first >= 0
      /\ \A k \in 1..Len(glyphs) :
           <<polys[first + k].text, polys[first + k].at>> = glyphs[k]

(* C9 as claimed: Lens numbering fails when the child cell has an empty     *)
(* bounding box, and places no label.                                       *)
C9_EmptyBoxFails ==
  ChildBoxEmpty => ret.status /= "ok"

(* C9 as the code has it: an empty child bounding box is no error.  The     *)
(* local centre is then (0,0), every instance is anchored at its reference  *)
(* origin, and the call labels the instances as usual whenever a reference  *)
(* matches (and the tolerance is not 0 in sequential mode).                 *)
C9_EmptyBoxFallsBack ==
  (/\ ChildBoxEmpty
   /\ Matching(cells_map[call.parent], call.child) /= {}
   /\ (call.mode = "row_col" \/ call.tolerance /= 0)
   /\ call.writable
   /\ call.text_fails_at \notin 1..Len(instances)) =>
    /\ ret.status = "ok"
    /\ Len(instances) = Cardinality(Matching(cells_map[call.parent], call.child))
    /\ \A i \in 1..Len(instances) :
         /\ instances[i].x = OriginOf(instances[i])[1]
         /\ instances[i].y = OriginOf(instances[i])[2]
    /\ LabelsPlaced

\* Two instances of a child without bounding box have been labelled.
C9_Witness ==
  /\ ChildBoxEmpty
  /\ ret.status = "ok"
  /\ Len(instances) = 2
  /\ instances[1].label /= instances[2].label

ShotCalled == call.op = "ShotEngine.process"
ShotOk == ShotCalled /\ ret.status = "ok"
PadCalled == call.op = "PadEngine.run_analysis"
PadOk == PadCalled /\ ret.status = "ok"

\* v rounded to 3 decimals: the nearest multiple of Quantum.
Nearest3(v) == Bucket(v, Quantum) * Quantum

(* C5: in relative grid-offset mode every label is "(dx,dy)", dx the index  *)
(* of the instance's X rounded to 3 decimals among the distinct rounded X   *)
(* values (ascending) minus the centre instance's index, dy likewise in Y;  *)
(* two values share an index iff they round alike.  The 3 x 3 grid spaced   *)
(* 50 apart gets (0,0) at the centre, (-1,0), (1,0), (0,-1), (0,1) at the   *)
(* edges and (-1,-1), (1,-1), (-1,1), (1,1) at the corners.                 *)
C5_GridOffsetLabels ==
  ShotOk =>
    LET n == Len(instances)
        xs == {instances[i].sort_x : i \in 1..n}
        ys == {instances[i].sort_y : i \in 1..n}
        RankX(i) == Cardinality({r \in {Nearest3(o) : o \in xs} : r < Nearest3(instances[i].sort_x)})
        RankY(i) == Cardinality({r \in {Nearest3(o) : o \in ys} : r < Nearest3(instances[i].sort_y)})
        Grid(i) == <<OriginOf(instances[i])[1] \div (50 * Unit) - 1,
                     OriginOf(instances[i])[2] \div (50 * Unit) - 1>>
    IN  /\ \E c \in 1..n :
             \A i \in 1..n :
               instances[i].label =
                 "(" \o ToString(RankX(i) - RankX(c)) \o "," \o ToString(RankY(i) - RankY(c)) \o ")"
        /\ \A i, j \in 1..n :
             (RankX(i) = RankX(j)) <=>
               (Nearest3(instances[i].sort_x) = Nearest3(instances[j].sort_x))
        /\ gds = ScenarioShot =>
             /\ n = 9
             /\ \A i \in 1..n :
                  instances[i].label =
                    "(" \o ToString(Grid(i)[1]) \o "," \o ToString(Grid(i)[2]) \o ")"

\* Scenario 3 has run: the centre and a corner carry their labels.
C5_Witness ==
  /\ ShotOk
  /\ gds = ScenarioShot
  /\ InstOfRef(5).label = "(0,0)"
  /\ InstOfRef(1).label = "(-1,-1)"

\* The centre Y of a row rounded to 3 decimals.
RoundedY(row) == Nearest3(row.cy)

(* C6 as claimed: the rows are ordered by -round(centerY, 3), then by        *)
(* round(centerX, 3) ascending, and primitives equal in both rounded keys    *)
(* keep their input order.                                                   *)
C6_RoundedXOrder ==
  PadOk =>
    \A i, j \in 1..Len(report.rows) :
      LET a == report.rows[i]
          b == report.rows[j]
      IN  i < j =>
            \/ RoundedY(a) > RoundedY(b)
            \/ RoundedY(a) = RoundedY(b) /\ Nearest3(a.cx) < Nearest3(b.cx)
            \/ RoundedY(a) = RoundedY(b) /\ Nearest3(a.cx) = Nearest3(b.cx) /\ a.poly < b.poly

(* C6 as the code has it: the rows are ordered by -round(centerY, 3) (top    *)
(* row first), then by the centre X as it is (not rounded), ascending;       *)
(* primitives equal in rounded centre Y and in centre X keep their input     *)
(* order.  So (cx=5, cy=50.0002) precedes (cx=10, cy=50.0001).              *)
C6_RawXOrder ==
  PadOk =>
    \A i, j \in 1..Len(report.rows) :
      LET a == report.rows[i]
          b == report.rows[j]
      IN  /\ i < j =>
               \/ RoundedY(a) > RoundedY(b)
               \/ RoundedY(a) = RoundedY(b) /\ a.cx < b.cx
               \/ RoundedY(a) = RoundedY(b) /\ a.cx = b.cx /\ a.poly < b.poly
          /\ (a.cx = 5 * Unit /\ a.cy = 50 * Unit + 2 /\ b.cx = 10 * Unit /\ b.cy = 50 * Unit + 1)
               => i < j

\* (cx=10, cy=50.0001) was given before (cx=5, cy=50.0002) and is reported after it.
C6_Witness ==
  /\ PadOk
  /\ Len(report.rows) = 2
  /\ report.rows[1].cx = 5 * Unit /\ report.rows[1].cy = 50 * Unit + 2
  /\ report.rows[2].cx = 10 * Unit /\ report.rows[2].cy = 50 * Unit + 1
  /\ report.rows[1].poly > report.rows[2].poly

\* The polygons of the flattened cell of the last run_analysis, and the positions of
\* those with the requested (layer, datatype).
PadFlat == FlatPolygons(gds, gds[call.cell_name])
PadTagged == {k \in 1..Len(PadFlat) :
                PadFlat[k].layer = call.layer /\ PadFlat[k].datatype = call.datatype}
PadBoxed == {k \in PadTagged : PadFlat[k].box /= NoBox}

\* The report holds every primitive of K once, and nothing else.
ReportsExactly(K) ==
  /\ Len(report.rows) = Cardinality(K)
  /\ \A k \in K : Cardinality({i \in 1..Len(report.rows) : report.rows[i].poly = k}) = 1

(* C8 as claimed: run_analysis fails with a not-found error and no report   *)
(* when the cell is not in the design or no primitive of the flattened cell *)
(* has the requested (layer, datatype); otherwise it returns the number of  *)
(* matching primitives with a bounding box, each reported once.             *)
C8_NotFoundOrCount ==
  PadCalled =>
    IF call.cell_name \notin DOMAIN gds \/ PadTagged = {}
    THEN ret.status = "ValueError" /\ report = NoReport
    ELSE ret.status = "ok" /\ ret.count = Cardinality(PadBoxed) /\ ReportsExactly(PadBoxed)

(* C8 as the code has it: run_analysis fails with a not-found error and no  *)
(* report when the cell is not in the design or no primitive of the         *)
(* flattened cell with the requested (layer, datatype) has a bounding box;  *)
(* otherwise, when the sheet can be written, it returns the number of such  *)
(* primitives, each reported once, and when it cannot, it raises an I/O     *)
(* error and leaves no sheet.                                               *)
C8_NotFoundOrCountBoxed ==
  PadCalled =>
    IF call.cell_name \notin DOMAIN gds \/ PadBoxed = {}
    THEN ret.status = "ValueError" /\ report = NoReport
    ELSE IF call.writable
    THEN ret.status = "ok" /\ ret.count = Cardinality(PadBoxed) /\ ReportsExactly(PadBoxed)
    ELSE ret.status = "IOError" /\ ~report.excel /\ report.rows = <<>>

\* Two of three primitives are reported: the third has the layer but not the datatype.
C8_Witness ==
  /\ PadOk
  /\ ret.count = 2
  /\ Len(PadFlat) = 3
  /\ Cardinality(PadTagged) = 2

ProcessCalled == LensCalled \/ ShotCalled

(* C7: instance location fails with a not-found error whenever the target   *)
(* cell name is absent from the loaded design or no direct reference of the *)
(* parent resolves to the target name, in LensEngine.process and in         *)
(* ShotEngine.process, also when references hold the target as a bare name. *)
C7_LocateFailsNotFound ==
  ProcessCalled =>
    ((\/ call.child \notin DOMAIN cells_map
      \/ call.parent \notin DOMAIN cells_map
      \/ Matching(cells_map[call.parent], call.child) = {})
       => ret.status = "ValueError")

\* The step is a numbering call.
ProcessStep == call'.op \in {"LensEngine.process", "ShotEngine.process"}

(* C10: a numbering call changes nothing in the in-memory design but the    *)
(* parent's polygon list, to whose end it appends label polygons: every     *)
(* reference, every polygon there was and every other cell stay as they     *)
(* were, in their order.                                                    *)
C10_OnlyAppendsLabels ==
  [][ProcessStep =>
       /\ DOMAIN cells_map' = DOMAIN cells_map
       /\ gds' = gds
       /\ \A n \in DOMAIN cells_map :
            LET old == cells_map[n]
                new == cells_map'[n]
            IN  /\ new.references = old.references
                /\ n /= call'.parent => new = old
                /\ Len(new.polygons) >= Len(old.polygons)
                /\ SubSeq(new.polygons, 1, Len(old.polygons)) = old.polygons
                /\ \A k \in (Len(old.polygons) + 1)..Len(new.polygons) :
                     new.polygons[k].text /= ""]_vars

\* A second Lens call has appended its label after the design polygon and the label
\* of the first call.
C10_Witness ==
  /\ LensOk
  /\ Len(cells_map["A"].polygons) = 3
  /\ cells_map["A"].polygons[1] = OwnPoly
  /\ cells_map["A"].polygons[2].text = "1"
  /\ cells_map["A"].polygons[3].text = "1"
  /\ Len(cells_map["A"].references) = 2

\* s is an initial part of t.
IsPrefix(s, t) == Len(s) <= Len(t) /\ SubSeq(t, 1, Len(s)) = s

(* C11: committed label polygons stay in their cell across later calls.     *)
(* Every step but load_lib keeps each cell's polygon list as an initial     *)
(* part of the new list; a successful process call that follows a           *)
(* successful one with the same arguments appends the same labels again, so *)
(* that the list ends with two equal sets; load_lib replaces the in-memory  *)
(* design by the file's.                                                    *)
C11_LabelsPersist ==
  [][/\ call'.op /= "load_lib" =>
          /\ DOMAIN cells_map' = DOMAIN cells_map
          /\ \A n \in DOMAIN cells_map :
               IsPrefix(cells_map[n].polygons, cells_map'[n].polygons)
     /\ (/\ ProcessStep
         /\ call' = call
         /\ ret.status = "ok" /\ ret'.status = "ok"
         /\ cells_map' /= cells_map) =>
          LET old == cells_map[call.parent].polygons
              new == cells_map'[call.parent].polygons
              k == Len(new) - Len(old)
          IN  /\ k > 0
              /\ Len(old) > k
              /\ SubSeq(new, Len(old) + 1, Len(new)) = SubSeq(old, Len(old) - k + 1, Len(old))
     /\ call'.op = "load_lib" => cells_map' = gds]_vars

\* The parent holds its design polygon and two equal sets of one label polygon.
C11_Witness ==
  /\ LensOk
  /\ Len(cells_map["A"].polygons) = 3
  /\ cells_map["A"].polygons[1] = OwnPoly
  /\ cells_map["A"].polygons[2] = cells_map["A"].polygons[3]
  /\ cells_map["A"].polygons[3].layer = LabelLayer

MaxOf(S) == CHOOSE m \in S : \A o \in S : m >= o

\* The position in the parent's polygon list before the polygons of the i-th label of
\* the last call, and the union bounding box of those polygons.
LabelStart(i) ==
  Len(cells_map[call.parent].polygons) - Len(GlyphsOf(instances))
    + Sum([j \in 1..(i - 1) |-> Len(instances[j].label)])
LabelBox(i) ==
  LET polys == cells_map[call.parent].polygons
      K == (LabelStart(i) + 1)..(LabelStart(i) + Len(instances[i].label))
  IN  <<MinOf({polys[k].box[1] : k \in K}), MinOf({polys[k].box[2] : k \in K}),
        MaxOf({polys[k].box[3] : k \in K}), MaxOf({polys[k].box[4] : k \in K})>>

\* The point the i-th label of the last call is to be centred on.
TargetPoint(i) ==
  IF LensCalled
  THEN <<instances[i].x + call.offset[1], instances[i].y + call.offset[2]>>
  ELSE <<instances[i].text_x, instances[i].text_y>>

\* An instance whose label has no glyph.
Unlabelled ==
  [ref |-> 1, x |-> 0, y |-> 0, sort_x |-> 0, sort_y |-> 0, text_x |-> 0, text_y |-> 0,
   label |-> ""]

Reflected(p, x_reflection) == IF x_reflection THEN <<p[1], -p[2]>> ELSE p
Scaled(p, magnification) == <<p[1] * magnification, p[2] * magnification>>
Rotated(p, rotation) ==
  CASE rotation % 4 = 0 -> p
    [] rotation % 4 = 1 -> <<-p[2], p[1]>>
    [] rotation % 4 = 2 -> <<-p[1], -p[2]>>
    [] rotation % 4 = 3 -> <<p[2], -p[1]>>
Translated(p, origin) == <<p[1] + origin[1], p[2] + origin[2]>>
Composed(p, reference) ==
  Translated(Rotated(Scaled(Reflected(p, reference.x_reflection), reference.magnification),
                     reference.rotation),
             reference.origin)

\* References of every rotation and reflection, of magnification 1 and 2.
SomeReferences ==
  {Ref(Handle("B"), <<x, y>>, rotation, magnification, x_reflection) :
     x \in {0, 7}, y \in {-5}, rotation \in 0..3, magnification \in {1, 2},
     x_reflection \in BOOLEAN}

(* C13: _transform_point reflects (negates Y under x_reflection), then      *)
(* scales by the magnification, then rotates counter-clockwise by the       *)
(* reference's angle, then translates by the origin; with rotation 0,       *)
(* magnification 1 and no reflection it returns the point plus the origin.  *)
(* (A magnification of zero is the matter of C14.)                          *)
C13_ComposeOrder ==
  ShotOk =>
    /\ \A i \in 1..Len(instances) :
         LET reference == cells_map[call.parent].references[instances[i].ref]
         IN  reference.magnification /= 0 =>
               /\ <<instances[i].sort_x, instances[i].sort_y>> = Composed(<<0, 0>>, reference)
               /\ <<instances[i].text_x, instances[i].text_y>>
                    = Composed(call.text_anchor, reference)
               /\ (/\ reference.rotation = 0
                   /\ reference.magnification = 1
                   /\ ~reference.x_reflection) =>
                    /\ instances[i].text_x = call.text_anchor[1] + reference.origin[1]
                    /\ instances[i].text_y = call.text_anchor[2] + reference.origin[2]
    /\ \A reference \in SomeReferences :
         transform_point(call.text_anchor, reference) = Composed(call.text_anchor, reference)

\* An instance reflected, magnified by 2 and turned by a quarter turn has been placed.
C13_Witness ==
  /\ ShotOk
  /\ \E i \in 1..Len(instances) :
       LET reference == cells_map["A"].references[instances[i].ref]
       IN  /\ reference.x_reflection
           /\ reference.magnification = 2
           /\ reference.rotation = 1
           /\ instances[i].text_x = reference.origin[1] + 2
           /\ instances[i].text_y = reference.origin[2] + 6

(* C14: a reference of magnification exactly zero is a caller error:        *)
(* ShotEngine.process does not go on with the magnification replaced by 1,  *)
(* neither in _transform_point nor in the label size.                       *)
C14_ZeroMagnificationIsError ==
  (/\ ShotCalled
   /\ call.parent \in DOMAIN cells_map
   /\ \E k \in Matching(cells_map[call.parent], call.child) :
        cells_map[call.parent].references[k].magnification = 0) =>
    ret.status /= "ok"

\* unique_x and unique_y of the last row-column call.
unique_x == get_unique(AllX(instances), call.tolerance)
unique_y == get_unique(AllY(instances), call.tolerance)

StrictlyIncreasing(s) == \A i, j \in 1..Len(s) : i < j => s[i] < s[j]
Ascending(s) == \A i, j \in 1..Len(s) : i < j => s[i] <= s[j]

\* The ascending lists of up to four coordinates out of five, and the tolerances
\* tried on them.
SortedLists == {s \in SeqsUpTo(0..4, 4) : Ascending(s)}
SmallTolerances == 0..3

\* get_unique on every list of SortedLists with every tolerance of SmallTolerances.
IncreasingOnLists ==
  \A coords \in SortedLists, tolerance \in SmallTolerances :
    StrictlyIncreasing(get_unique(coords, tolerance))
IdempotentOnLists ==
  \A coords \in SortedLists, tolerance \in SmallTolerances :
    get_unique(get_unique(coords, tolerance), tolerance) = get_unique(coords, tolerance)

(* C15: for every ascending list of coordinates and every tolerance >= 0    *)
(* the representatives get_unique returns are strictly increasing.          *)
C15_RepresentativesIncrease ==
  RowColOk =>
    /\ StrictlyIncreasing(unique_x)
    /\ StrictlyIncreasing(unique_y)
    /\ IncreasingOnLists

\* Three instances at two distinct X positions, told apart with tolerance 0.
C15_Witness ==
  /\ RowColOk
  /\ call.tolerance = 0
  /\ Len(instances) = 3
  /\ Len(unique_x) = 2
  /\ instances[1].x = instances[3].x

(* C16: get_unique is idempotent: applied with the same tolerance to a list *)
(* of representatives it produced, it returns that list unchanged.          *)
C16_ClusteringIdempotent ==
  RowColOk =>
    /\ get_unique(unique_x, call.tolerance) = unique_x
    /\ get_unique(unique_y, call.tolerance) = unique_y
    /\ IdempotentOnLists

\* Three X positions were merged into two clusters, the second of them one the
\* first cluster did not reach.
C16_Witness ==
  /\ RowColOk
  /\ call.tolerance = 2
  /\ Cardinality({instances[i].x : i \in 1..Len(instances)}) = 3
  /\ Len(unique_x) = 2

\* The construction of the clusters replayed on an ascending list: the index of the
\* cluster each coordinate went into, with that cluster's representative.
MergeTrace(coords, tolerance) ==
  LET M[k \in 1..Len(coords)] ==
        IF k = 1 THEN <<1, coords[1]>>
        ELSE IF coords[k] - M[k - 1][2] > tolerance
             THEN <<M[k - 1][1] + 1, coords[k]>>
             ELSE M[k - 1]
  IN  M
MergedInto(v, coords, tolerance) ==
  MergeTrace(coords, tolerance)[CHOOSE k \in 1..Len(coords) : coords[k] = v][1]

\* The representatives of u that v is within the tolerance of.
Near(v, u, tolerance) == {j \in 1..Len(u) : Abs(v - u[j]) <= tolerance}

(* C17: in row-column mode with tolerance >= 0 the lookup of an instance's  *)
(* coordinate never gives -1: every label is "<r>-<c>" with r and c indices *)
(* of representatives, each the index of the cluster the coordinate was     *)
(* merged into when the clusters were built.                                *)
C17_LookupFindsOwnCluster ==
  RowColOk =>
    \A i \in 1..Len(instances) :
      LET r == ClusterIndex(instances[i].y, unique_y, call.tolerance)
          c == ClusterIndex(instances[i].x, unique_x, call.tolerance)
      IN  /\ r \in 1..Len(unique_y)
          /\ c \in 1..Len(unique_x)
          /\ r = MergedInto(instances[i].y, AllY(instances), call.tolerance)
          /\ c = MergedInto(instances[i].x, AllX(instances), call.tolerance)
          /\ instances[i].label = ToString(r) \o "-" \o ToString(c)

\* An instance whose X is within the tolerance of two representatives carries the
\* column of the first, the cluster it was merged into.
C17_Witness ==
  /\ RowColOk
  /\ \E i \in 1..Len(instances) :
       /\ Near(instances[i].x, unique_x, call.tolerance) = {1, 2}
       /\ instances[i].label = "1-1"

\* The values looked up: around the coordinates of the designs drawn and of the
\* scenario design.
ProbeValues ==
  (-3..6) \cup {4 * Unit, 5 * Unit, 6 * Unit + 1, 104 * Unit, 105 * Unit + 1}

(* C18: a value within the tolerance of exactly one representative, and of  *)
(* no other, is looked up to that representative's index.                   *)
C18_LookupOfSingleMatch ==
  RowColOk =>
    \A v \in ProbeValues :
      /\ \A j \in 1..Len(unique_x) :
           Near(v, unique_x, call.tolerance) = {j} =>
             ClusterIndex(v, unique_x, call.tolerance) = j
      /\ \A j \in 1..Len(unique_y) :
           Near(v, unique_y, call.tolerance) = {j} =>
             ClusterIndex(v, unique_y, call.tolerance) = j

\* A value that is no coordinate of an instance lies at exactly the tolerance from the
\* second of two representatives, and within the tolerance of no other.
C18_Witness ==
  /\ RowColOk
  /\ call.tolerance = 1
  /\ Len(unique_x) = 2
  /\ \E v \in ProbeValues :
       /\ \A i \in 1..Len(instances) : instances[i].x /= v
       /\ v - unique_x[2] = 1
       /\ Near(v, unique_x, call.tolerance) = {2}

(* C19: in row-column mode two distinct instances have the same label only  *)
(* if their X values are both within the tolerance of one X representative  *)
(* and their Y values both within the tolerance of one Y representative.    *)
C19_SameLabelSameClusterPair ==
  RowColOk =>
    \A i, j \in 1..Len(instances) :
      (i /= j /\ instances[i].label = instances[j].label) =>
        /\ Near(instances[i].x, unique_x, call.tolerance)
             \cap Near(instances[j].x, unique_x, call.tolerance) /= {}
        /\ Near(instances[i].y, unique_y, call.tolerance)
             \cap Near(instances[j].y, unique_y, call.tolerance) /= {}

\* Two instances at different positions share a label, a third has another.
C19_Witness ==
  /\ RowColOk
  /\ Len(instances) = 3
  /\ instances[1].label = instances[2].label
  /\ instances[1].x /= instances[2].x
  /\ instances[1].y /= instances[2].y
  /\ instances[3].label /= instances[1].label

\* The sort positions of the last Shot call are small enough for their squares.
SmallPositions ==
  \A i \in 1..Len(instances) :
    Abs(instances[i].sort_x) <= 100 /\ Abs(instances[i].sort_y) <= 100

\* The squared Euclidean distance of the i-th sort position to the mean of all sort
\* positions, times the square of their number.
DistSq(i) ==
  LET n == Len(instances)
      dx == n * instances[i].sort_x - Sum([j \in 1..n |-> instances[j].sort_x])
      dy == n * instances[i].sort_y - Sum([j \in 1..n |-> instances[j].sort_y])
  IN  dx * dx + dy * dy

\* The first instance, in reference order, of least distance to the mean.
Nearest ==
  CHOOSE c \in 1..Len(instances) :
    /\ \A j \in 1..Len(instances) : DistSq(c) <= DistSq(j)
    /\ \A j \in 1..(c - 1) : DistSq(j) > DistSq(c)

\* The index of the i-th instance's rounded X (Y) among the distinct rounded values.
PlaceX(i) ==
  Cardinality({r \in {Nearest3(instances[j].sort_x) : j \in 1..Len(instances)} :
                 r < Nearest3(instances[i].sort_x)})
PlaceY(i) ==
  Cardinality({r \in {Nearest3(instances[j].sort_y) : j \in 1..Len(instances)} :
                 r < Nearest3(instances[i].sort_y)})

(* C20: the centre instance of ShotEngine.process is the matching instance  *)
(* whose sort position is nearest (Euclidean) to the arithmetic mean of all *)
(* sort positions, the first in the parent's reference order when several   *)
(* are as near; every label is relative to it and its own label is "(0,0)". *)
C20_CentreIsNearestToMean ==
  ShotOk =>
    /\ \A i, j \in 1..Len(instances) : i < j => instances[i].ref < instances[j].ref
    /\ SmallPositions =>
         /\ instances[Nearest].label = "(0,0)"
         /\ \A i \in 1..Len(instances) :
              instances[i].label =
                "(" \o ToString(PlaceX(i) - PlaceX(Nearest)) \o ","
                    \o ToString(PlaceY(i) - PlaceY(Nearest)) \o ")"
    /\ gds = ScenarioShot =>
         \A i \in 1..Len(instances) :
           (instances[i].label = "(0,0)") <=> (instances[i].ref = 5)

\* Two instances are as near to the mean as each other; the first is the centre.
C20_Witness ==
  /\ ShotOk
  /\ SmallPositions
  /\ Len(instances) = 2
  /\ DistSq(1) = DistSq(2)
  /\ instances[1].label = "(0,0)"
  /\ instances[2].label = "(1,1)"

\* The step is a process call that fails after its placement loop has started.
FailsInLoopOrSave ==
  /\ ProcessStep
  /\ ret'.status \in {"Exception", "OSError"}
  /\ vars' /= vars

(* C21: a process call is not all-or-nothing.  When gdstk.text fails in a   *)
(* pass of the placement loop, or the file cannot be written, the call      *)
(* reports the failure and the parent cell has gained the labels of the     *)
(* instances placed before the failure (all of them when saving fails), in  *)
(* loop order after the polygons it had.                                    *)
C21_FailureKeepsEarlierLabels ==
  [][FailsInLoopOrSave =>
       LET old == cells_map[call'.parent].polygons
           new == cells_map'[call'.parent].polygons
           done == IF ret'.status = "Exception"
                   THEN SubSeq(instances', 1, call'.text_fails_at - 1)
                   ELSE instances'
           glyphs == GlyphsOf(done)
       IN  /\ ret'.status /= "ok"
           /\ ret'.status = "Exception" => call'.text_fails_at \in 1..Len(instances')
           /\ ret'.status = "OSError" => ~call'.writable
           /\ Len(new) = Len(old) + Len(glyphs)
           /\ SubSeq(new, 1, Len(old)) = old
           /\ \A k \in 1..Len(glyphs) :
                <<new[Len(old) + k].text, new[Len(old) + k].at>> = glyphs[k]]_vars

\* The third pass of the loop failed: the call raised and the parent holds the labels
\* of the first two instances after its design polygon.
C21_Witness ==
  /\ LensCalled
  /\ ret.status = "Exception"
  /\ call.text_fails_at = 3
  /\ Len(instances) = 3
  /\ Len(cells_map["A"].polygons) = 9
  /\ cells_map["A"].polygons[2].text = "0001"
  /\ cells_map["A"].polygons[6].text = "0002"

(* C22: in sequential mode two instances whose primary coordinates differ   *)
(* by no more than the tolerance are on the same grid line: they are        *)
(* numbered relative to each other by their secondary coordinate.           *)
C22_WithinToleranceSameLine ==
  SequentialOk =>
    \A i, j \in 1..Len(instances) :
      LET a == instances[i]
          b == instances[j]
          primary_a == IF call.sort_dir = "y_first" THEN a.y ELSE a.x
          primary_b == IF call.sort_dir = "y_first" THEN b.y ELSE b.x
          secondary_a == IF call.sort_dir = "y_first" THEN a.x ELSE a.y
          secondary_b == IF call.sort_dir = "y_first" THEN b.x ELSE b.y
      IN  (Abs(primary_a - primary_b) <= call.tolerance /\ secondary_a < secondary_b) =>
            IntValue(a.label) < IntValue(b.label)

(* C23: a LensEngine.process or ShotEngine.process call writes the design   *)
(* at most once, and what it writes is the design after the placement loop  *)
(* has run for every matching instance; a call without a loaded design      *)
(* fails, and a call that fails with a not-found error (unknown cell, no    *)
(* matching reference) writes nothing and leaves every cell as it was.      *)
C23_SavedOnceAfterLoop ==
  [][ProcessStep =>
       /\ Len(written') <= 1
       /\ written' /= <<>> =>
            LET polys == written'[1][call'.parent].polygons
                glyphs == GlyphsOf(instances')
                first == Len(polys) - Len(glyphs)
            IN  /\ ret'.status = "ok"
                /\ written'[1] = cells_map'
                /\ Len(instances')
                     = Cardinality(Matching(cells_map'[call'.parent], call'.child))
                /\ first >= 1
                /\ \A k \in 1..Len(glyphs) :
                     <<polys[first + k].text, polys[first + k].at>> = glyphs[k]
       /\ ret'.status = "ok" => written' /= <<>>
       /\ ~lib => ret'.status = "ValueError"
       /\ ret'.status = "ValueError" =>
            /\ written' = <<>>
            /\ cells_map' = cells_map
            /\ \/ call'.parent \notin DOMAIN cells_map
               \/ LensCalled' /\ call'.child \notin DOMAIN cells_map
               \/ Matching(cells_map[call'.parent], call'.child) = {}]_vars

\* A Shot call has written, once, the design with the labels of its three instances.
C23_Witness ==
  /\ ShotOk
  /\ Len(instances) = 3
  /\ Len(written) = 1
  /\ written[1] = cells_map
  /\ Len(written[1]["A"].polygons) = 1 + Len(GlyphsOf(instances))


-----------------------------------------------------------------------------
(* C24: one analysis in flight in the Pad tab                              *)

Results == {"finish_signal", "error_signal"}

\* The workers whose run has started and whose result has not been handled yet.
InFlight ==
  {w \in 1..Len(workers) :
     \/ workers[w].pc /= "finished"
     \/ \E k \in 1..Len(events) : events[k].worker = w /\ events[k].signal \in Results}

\* The number of result signals worker w has emitted.
ResultsEmitted(w) ==
  Cardinality({k \in 1..Len(workers[w].emitted) : workers[w].emitted[k] \in Results})

\* C24: in the Pad tab at most one worker is in flight; the run button is disabled
\* exactly while one is, from PadTab.run until on_finish or on_error has handled the
\* worker's result; and a worker whose run has ended has emitted exactly one of
\* finish_signal and error_signal, a worker still running none.
C24_OneWorkerInFlight ==
  /\ Cardinality(InFlight) <= 1
  /\ btn_run <=> InFlight = {}
  /\ \A w \in 1..Len(workers) :
       ResultsEmitted(w) = IF workers[w].pc = "finished" THEN 1 ELSE 0

\* A second run, started after the first worker's error was handled, has emitted its
\* own error, which waits in the queue behind its log line: the button is disabled.
C24_Witness ==
  /\ Len(workers) = 2
  /\ workers[1].emitted = <<"log_signal", "error_signal">>
  /\ workers[2].emitted = <<"log_signal", "error_signal">>
  /\ InFlight = {2}
  /\ Len(events) = 2
  /\ ~btn_run
  /\ progress

-----------------------------------------------------------------------------
(* C25: the cell-info report                                               *)

CellInfoCalled == call.op = "CellInfoEngine.process"
CellInfoOk == CellInfoCalled /\ ret.status = "ok"

\* The parent's references the call selects: named among target_children, with a box.
Selected ==
  IF call.parent \in DOMAIN cells_map
  THEN {k \in 1..Len(cells_map[call.parent].references) :
          /\ RefName(cells_map[call.parent].references[k]) \in call.target_children
          /\ RefBox(cells_map, cells_map[call.parent].references[k]) /= NoBox}
  ELSE {}

SelectedName(k) == RefName(cells_map[call.parent].references[k])
SelectedNames == {SelectedName(k) : k \in Selected}

\* Centre and extent of selected reference k, from the child's box and the origin.
SelectedBox(k) == RefBox(cells_map, cells_map[call.parent].references[k])
SelectedX(k) == (SelectedBox(k)[1] + SelectedBox(k)[3]) \div 2
SelectedY(k) == (SelectedBox(k)[2] + SelectedBox(k)[4]) \div 2

\* Instance k comes strictly before instance j in the report order: higher rounded
\* centre Y first, then lower centre X.
Before(k, j) ==
  \/ Round3(SelectedY(k)) > Round3(SelectedY(j))
  \/ Round3(SelectedY(k)) = Round3(SelectedY(j)) /\ SelectedX(k) < SelectedX(j)

\* Row i of the report describes selected reference k.
RowOf(i, k) ==
  /\ report.rows[i].CellName = SelectedName(k)
  /\ report.rows[i].Center_X = SelectedX(k)
  /\ report.rows[i].Center_Y = SelectedY(k)
  /\ report.rows[i].Width = SelectedBox(k)[3] - SelectedBox(k)[1]
  /\ report.rows[i].Height = SelectedBox(k)[4] - SelectedBox(k)[2]

====
